---- MODULE Spec2Model ----
(***************************************************************************)
(* Model of modules/midiHandler/midiToQWERTYLinux.py (nanoMIDIPlayer):     *)
(* the MIDI-to-keyboard translator with the ydotool (Wayland) backend.     *)
(*                                                                         *)
(* Threads of control: the caller (startMidiInput / stopMidiInput), the    *)
(* MIDI workers (midiLoop) and the hold timers (threading.Timer).  Every   *)
(* press(key) and release(key) is three steps: the backend call            *)
(* (ydotoolKeyDown / ydotoolKeyUp), the ledger update (heldKeys) and       *)
(* logKeys (pressedKeys).  Nothing in the source serialises these steps.   *)
(***************************************************************************)
EXTENDS Integers, Sequences, FiniteSets, TLC

(***************************************************************************)
(* Bounds of the model.                                                    *)
(***************************************************************************)
MaxWorkers == 2
MaxTimers == 2
MaxRacing == 1
MaxMsgs == 3
MaxTrace == 5

(***************************************************************************)
(* Program constants.                                                      *)
(***************************************************************************)
RangeLow == -15
RangeHigh == 88
RangeBase == 36
NaturalLow == 36
NaturalHigh == 96
SustainCutoff == 64

(***************************************************************************)
(* Keys.  keyMap: key string -> ydotool keycode (the entries the model     *)
(* uses).  '1' and '!' share keycode 2, as in the source.                  *)
(***************************************************************************)
keyMap ==
    ("1" :> 2) @@ ("!" :> 2) @@ ("2" :> 3) @@ ("3" :> 4) @@ ("4" :> 5) @@
    ("5" :> 6) @@ ("c" :> 46) @@ ("t" :> 20) @@ ("y" :> 21) @@ ("q" :> 16) @@
    ("C" :> 46) @@ ("T" :> 20) @@ ("Y" :> 21) @@ ("Q" :> 16) @@
    ("space" :> 57) @@ ("shift" :> 42) @@ ("ctrl" :> 29) @@ ("alt" :> 56)

\* str.lower() on the key strings of the model
Lower(key) ==
    CASE key = "C" -> "c"
      [] key = "T" -> "t"
      [] key = "Q" -> "q"
      [] key = "Y" -> "y"
      [] OTHER -> key

\* str.isupper() on the key strings of the model
IsUpper(key) == Lower(key) # key

\* re.search("[!@$%^*(]", key)
IsSymbol(key) == key \in {"!", "@", "$", "%", "^", "*", "("}

Range(s) == {s[i] : i \in DOMAIN s}

(***************************************************************************)
(* Configuration: the three note tables of configData["midiToQwerty"]      *)
(* ["pianoMap"], the velocity table and the four flags.                    *)
(***************************************************************************)
NoTable == [n \in {} |-> ""]

\* excerpt of the stock layout: 36 '1', 37 '!', 60 't', 61 'T';
\* low notes reuse '1' under ctrl, high notes 'y' under ctrl
MapStd ==
    [letterNoteMap |-> (36 :> "1") @@ (37 :> "!") @@ (60 :> "t") @@ (61 :> "T"),
     lowNotes      |-> (21 :> "1"),
     highNotes     |-> (97 :> "y")]

\* the map of the no-doubles scenario
MapC ==
    [letterNoteMap |-> (60 :> "C") @@ (61 :> "!"),
     lowNotes      |-> NoTable,
     highNotes     |-> NoTable]

\* a map with a symbol whose previous semitone has no entry (37), a key the
\* backend does not know (60) and an entry for a note below the range gate (20)
MapGap ==
    [letterNoteMap |-> (37 :> "!") @@ (60 :> "-"),
     lowNotes      |-> (20 :> "q") @@ (21 :> "1"),
     highNotes     |-> NoTable]

PianoMaps == {MapStd, MapC, MapGap}

VelNone == [t \in {} |-> ""]
VelTwo == (1 :> "1") @@ (64 :> "2")
VelocityMaps == {VelNone, VelTwo}

Configs ==
    [velocity : BOOLEAN, noDoubles : BOOLEAN, customHold : BOOLEAN,
     sustain : BOOLEAN, pianoMap : PianoMaps, velocityMap : VelocityMaps]

(***************************************************************************)
(* MIDI messages.                                                          *)
(***************************************************************************)
NoteOn(n, v) == [type |-> "note_on", note |-> n, velocity |-> v, value |-> 0]
NoteOff(n) == [type |-> "note_off", note |-> n, velocity |-> 0, value |-> 0]
ControlChange(x) == [type |-> "control_change", note |-> 0, velocity |-> 0, value |-> x]

(***************************************************************************)
(* findVelocityKey: the bisection of lines 318-332, computed as the code   *)
(* computes it.                                                            *)
(***************************************************************************)
RECURSIVE SortedSeq(_)
SortedSeq(S) ==
    IF S = {} THEN <<>>
    ELSE LET m == CHOOSE x \in S : \A y \in S : x <= y
         IN <<m>> \o SortedSeq(S \ {m})

RECURSIVE VelocityLoop(_, _, _, _, _)
VelocityLoop(thresholds, velocity, minimum, maximum, index) ==
    IF minimum <= maximum
    THEN LET mid == (minimum + maximum) \div 2
         IN IF mid = 0 \/ mid = Len(thresholds) - 1
            THEN mid
            ELSE IF thresholds[mid + 1] < velocity
                 THEN VelocityLoop(thresholds, velocity, mid + 1, maximum, mid)
                 ELSE VelocityLoop(thresholds, velocity, minimum, mid - 1, mid)
    ELSE index

\* the 0-based index the loop ends with
VelocityIndex(velocity, velocityMap) ==
    LET thresholds == SortedSeq(DOMAIN velocityMap)
    IN VelocityLoop(thresholds, velocity, 0, Len(thresholds) - 1, 0)

\* the threshold whose key is returned; -1 stands for the IndexError of
\* thresholds[0] on an empty table
VelocityThreshold(velocity, velocityMap) ==
    LET thresholds == SortedSeq(DOMAIN velocityMap)
    IN IF thresholds = <<>> THEN -1
       ELSE thresholds[VelocityIndex(velocity, velocityMap) + 1]

\* a lookup that answers "1" for an empty table instead of failing
findVelocityKeyDefault(velocity, velocityMap) ==
    IF DOMAIN velocityMap = {} THEN "1"
    ELSE velocityMap[VelocityThreshold(velocity, velocityMap)]

findVelocityKey(velocity, velocityMap) ==
    IF DOMAIN velocityMap = {} THEN "IndexError"
    ELSE velocityMap[VelocityThreshold(velocity, velocityMap)]


(***************************************************************************)
(* The steps a handler takes, in program order.  press(key) is the backend *)
(* call <<"down", key>> (line 209), the ledger write <<"hold", key>> (210) *)
(* and logKeys <<"logPress", key>> (213); release(key) is <<"up", key>>    *)
(* (227), <<"forget", key>> (228-229) and <<"logRelease", key>> (232).  An *)
(* exception raised while the handler evaluates is <<"raise", name>>.      *)
(***************************************************************************)
press(key) == << <<"down", key>>, <<"hold", key>>, <<"logPress", key>> >>

\* a release that sends the key up and keeps its ledger entry
releaseKeepsEntry(key) == << <<"up", key>>, <<"logRelease", key>> >>

release(key) == << <<"up", key>>, <<"forget", key>>, <<"logRelease", key>> >>

\* a press that never arms the hold timer
pressAndNeverRelease(c, key) == press(key)

pressAndMaybeRelease(c, key) ==
    press(key) \o (IF c.customHold THEN << <<"arm", key>> >> ELSE <<>>)

Raise(name) == << <<"raise", name>> >>

\* the steps up to and including the first raise
RECURSIVE Cut(_)
Cut(ops) ==
    IF ops = <<>> THEN <<>>
    ELSE IF Head(ops)[1] = "raise" THEN <<Head(ops)>>
    ELSE <<Head(ops)>> \o Cut(Tail(ops))

\* a range gate one note too wide at the low end
InRangeWide(note) ==
    RangeLow - 1 <= note - RangeBase /\ note - RangeBase <= RangeHigh

\* lines 345-347: the range gate
InRange(note) ==
    RangeLow <= note - RangeBase /\ note - RangeBase <= RangeHigh

\* lines 349-363: compact map, then low notes, then high notes; "" is no key
Resolve(c, note) ==
    IF note \in DOMAIN c.pianoMap.letterNoteMap THEN c.pianoMap.letterNoteMap[note]
    ELSE IF note \in DOMAIN c.pianoMap.lowNotes THEN c.pianoMap.lowNotes[note]
    ELSE IF note \in DOMAIN c.pianoMap.highNotes THEN c.pianoMap.highNotes[note]
    ELSE ""

Dropped(c, note) == ~InRange(note) \/ Resolve(c, note) = ""

InNatural(note) == NaturalLow <= note /\ note <= NaturalHigh

HasPrev(c, note) == (note - 1) \in DOMAIN c.pianoMap.letterNoteMap

\* letterNoteMap[str(note - 1)], where it exists
PrevKey(c, note) == c.pianoMap.letterNoteMap[note - 1]

\* lines 373-379: the velocity bracket
VelocityOps(c, velocity) ==
    IF ~c.velocity THEN <<>>
    ELSE LET velocityKey == findVelocityKey(velocity, c.velocityMap)
         IN IF velocityKey = "IndexError" THEN Raise("IndexError")
            ELSE press("alt") \o press(velocityKey)
                 \o release(velocityKey) \o release("alt")

\* lines 382-386: the no-doubles release
NoDoublesOps(c, note, key) ==
    IF ~c.noDoubles THEN <<>>
    ELSE IF IsSymbol(key)
         THEN (IF HasPrev(c, note) THEN release(PrevKey(c, note)) ELSE Raise("KeyError"))
         ELSE release(Lower(key))

\* lines 387-399: shift-wrapped symbol, shift-wrapped uppercase, plain key
NaturalOps(c, note, key) ==
    IF IsSymbol(key)
    THEN (IF HasPrev(c, note)
          THEN press("shift") \o pressAndMaybeRelease(c, PrevKey(c, note)) \o release("shift")
          ELSE Raise("KeyError"))
    ELSE IF IsUpper(key)
    THEN press("shift") \o pressAndMaybeRelease(c, Lower(key)) \o release("shift")
    ELSE pressAndMaybeRelease(c, key)

\* an octave bracket that leaves ctrl down
OctaveOpsCtrlKept(c, key) ==
    release(Lower(key)) \o press("ctrl") \o pressAndMaybeRelease(c, Lower(key))

\* lines 400-405: the ctrl-wrapped octave region
OctaveOps(c, key) ==
    release(Lower(key)) \o press("ctrl")
    \o pressAndMaybeRelease(c, Lower(key)) \o release("ctrl")

\* lines 369-405, after pianoWidget.down
NoteOnOps(c, note, velocity) ==
    LET key == Resolve(c, note)
    IN Cut(VelocityOps(c, velocity)
           \o (IF InNatural(note)
               THEN NoDoublesOps(c, note, key) \o NaturalOps(c, note, key)
               ELSE OctaveOps(c, key)))

\* lines 407-417, after pianoWidget.up
NoteOffOps(c, note) ==
    LET key == Resolve(c, note)
    IN IF InNatural(note)
       THEN (IF IsSymbol(key)
             THEN (IF HasPrev(c, note) THEN release(PrevKey(c, note)) ELSE Raise("KeyError"))
             ELSE release(Lower(key)))
       ELSE release(Lower(key))

\* lines 342-417: the steps of simulateKey(msgType, note, velocity)
simulateKey(c, msgType, note, velocity) ==
    IF Dropped(c, note) THEN <<>>
    ELSE IF msgType = "note_on" THEN NoteOnOps(c, note, velocity)
    ELSE NoteOffOps(c, note)

\* a message type that takes no account of the velocity
EffectiveTypeAsSent(m) == m.type

\* lines 432-435: a note_on of velocity 0 is handled as a note_off
EffectiveType(m) == IF m.velocity = 0 THEN "note_off" ELSE m.type

\* a latch that takes the cutoff itself for "above"
SustainEdgeInclusive(c, active, m) ==
    IF m.type = "control_change" /\ c.sustain
    THEN (IF ~active /\ m.value >= SustainCutoff THEN "press"
          ELSE IF active /\ m.value < SustainCutoff THEN "release"
          ELSE "none")
    ELSE "none"

\* lines 423-429: what a control change does to the sustain latch
SustainEdge(c, active, m) ==
    IF m.type = "control_change" /\ c.sustain
    THEN (IF ~active /\ m.value > SustainCutoff THEN "press"
          ELSE IF active /\ m.value < SustainCutoff THEN "release"
          ELSE "none")
    ELSE "none"

\* lines 425 and 428: sustainActive after the message
SustainNext(c, active, m) ==
    CASE SustainEdge(c, active, m) = "press" -> TRUE
      [] SustainEdge(c, active, m) = "release" -> FALSE
      [] OTHER -> active

\* lines 419-438: the steps of parseMidi(message)
parseMidi(c, active, m) ==
    IF m.type = "control_change"
    THEN CASE SustainEdge(c, active, m) = "press" -> press("space")
           [] SustainEdge(c, active, m) = "release" -> release("space")
           [] OTHER -> <<>>
    ELSE simulateKey(c, EffectiveType(m), m.note, m.velocity)

\* lines 370 and 408: pianoWidget.down(note, velocity) / pianoWidget.up(note)
PianoNext(c, shown, m) ==
    IF m.type = "control_change" \/ Dropped(c, m.note) THEN shown
    ELSE IF EffectiveType(m) = "note_on" THEN shown \cup {m.note}
    ELSE shown \ {m.note}

ArmCount(ops) == Cardinality({i \in DOMAIN ops : ops[i][1] = "arm"})


(***************************************************************************)
(* State.                                                                  *)
(***************************************************************************)
VARIABLES
    cfg,            \* configuration.configData["midiToQwerty"], read-only
    pressedKeys,    \* line 13: the names logKeys shows as down
    heldKeys,       \* line 14: the ledger, its keys in insertion order
    backendDown,    \* keycodes down at ydotool (a key:1 not followed by a key:0)
    piano,          \* the notes the piano widget shows down
    stopEvent,      \* line 312
    closeThread,    \* line 315
    sustainActive,  \* line 316
    inPort,         \* line 19: 0 is None, w is the port opened for worker w
    midiThread,     \* line 20: 0 is None, w is worker w
    workers,        \* the midiLoop threads
    timers,         \* the threading.Timer objects
    timerList,      \* line 314: the timers it lists
    caller,         \* the thread that calls startMidiInput / stopMidiInput
    lastCall,       \* history: the call the caller completed last
    nMsgs,          \* history: messages handed to parseMidi so far
    fresh,          \* history: the session began with nothing held and has
                    \* handled only NoteOns (velocity > 0) of new, mapped notes
    rt,             \* history: what the last message handed to parseMidi was
    trace,          \* history: the messages handed to parseMidi, in order
    calls           \* history: the backend calls on the sustain key, in order

vars == <<cfg, pressedKeys, heldKeys, backendDown, piano, stopEvent, closeThread,
          sustainActive, inPort, midiThread, workers, timers, timerList, caller,
          lastCall, nMsgs, fresh, rt, trace, calls>>

history == <<nMsgs, fresh, rt, trace, calls>>

Workers == 1..MaxWorkers
Timers == DOMAIN timers

\* a thread: "new" is started and has not yet evaluated inPort (line 463),
\* "wait" is blocked in the for loop, "got" has msg in hand and has passed
\* the check of line 464, "run" is inside parseMidi(msg); port is the port
\* it iterates, closed whether that port has been closed, err the exception
\* that ended it
NoMsg == [type |-> "none", note |-> 0, velocity |-> 0, value |-> 0]

NoWorker ==
    [st |-> "none", msg |-> NoMsg, todo |-> <<>>, port |-> 0, closed |-> FALSE, err |-> ""]
NewWorker == [NoWorker EXCEPT !.st = "new"]
\* the name of a port that inPort has ceased to refer to
LeakedPort == MaxWorkers + 1
FreeTimer == [st |-> "free", key |-> ""]
IdleCaller == [pc |-> "idle", sweep |-> <<>>, todo |-> <<>>, snapLen |-> 0, relCalls |-> 0]

\* Thread.is_alive(): true from the return of Thread.start() (line 469)
Alive(w) == workers[w].st \in {"new", "wait", "got", "run"}

\* the state of the module after import (lines 13-20, 312-316)
InitWith(configs, nTimers) ==
    /\ cfg \in configs
    /\ pressedKeys = {}
    /\ heldKeys = <<>>
    /\ backendDown = {}
    /\ piano = {}
    /\ stopEvent = FALSE
    /\ closeThread = FALSE
    /\ sustainActive = FALSE
    /\ inPort = 0
    /\ midiThread = 0
    /\ workers = [w \in Workers |-> NoWorker]
    /\ timers = [i \in 1..nTimers |-> FreeTimer]
    /\ timerList = {}
    /\ caller = IdleCaller
    /\ lastCall = "none"
    /\ nMsgs = 0
    /\ fresh = FALSE
    /\ rt = <<0, 0>>
    /\ trace = <<>>
    /\ calls = <<>>

(***************************************************************************)
(* One step of press / release / pressAndMaybeRelease, by whichever        *)
(* thread takes it.                                                        *)
(***************************************************************************)
\* a press that keeps the case of the key
PressKeyStrRaw(key) == key

\* lines 201-204: keyStr = key.lower()
PressKeyStr(key) == Lower(key)

\* lines 219-222: keyStr = key.lower()
ReleaseKeyStr(key) == Lower(key)

\* line 210: heldKeys[keyStr] = (keycode, time)
HeldAfterPress(held, keyStr) ==
    IF keyStr \in Range(held) THEN held ELSE Append(held, keyStr)

\* lines 228-229: if keyStr in heldKeys: del heldKeys[keyStr]
HeldAfterRelease(held, keyStr) ==
    SelectSeq(held, LAMBDA k : k # keyStr)

\* lines 207-209 / 225-227: the backend is called only for a key of keyMap
BackendAfter(down, kind, keyStr) ==
    IF keyStr \notin DOMAIN keyMap THEN down
    ELSE IF kind = "down" THEN down \cup {keyMap[keyStr]}
    ELSE IF kind = "up" THEN down \ {keyMap[keyStr]}
    ELSE down

\* lines 102-110: logKeys
PressedAfter(shown, kind, key) ==
    IF kind = "logPress" THEN shown \cup {key}
    ELSE IF kind = "logRelease" THEN shown \ {key}
    ELSE shown

FreeTimers == {i \in Timers : timers[i].st = "free"}

\* the timers the messages in hand will still start
PendingArms ==
    Cardinality({w \in Workers :
        \/ ArmCount(workers[w].todo) > 0
        \/ /\ workers[w].st = "got"
           /\ ArmCount(parseMidi(cfg, sustainActive, workers[w].msg)) > 0})

\* lines 338-340: a new Timer, appended to timerList and started
Arm(key) ==
    LET i == CHOOSE j \in FreeTimers : \A k \in FreeTimers : j <= k
    IN /\ timers' = [timers EXCEPT ![i] = [st |-> "armed", key |-> key]]
       /\ timerList' = timerList \cup {i}

\* a step of press or release: the backend call, the ledger write or logKeys
ExecKey(op) ==
    LET kind == op[1]
        key == op[2]
        keyStr == IF kind \in {"down", "hold", "logPress"}
                  THEN PressKeyStr(key) ELSE ReleaseKeyStr(key)
    IN /\ backendDown' = BackendAfter(backendDown, kind, keyStr)
       /\ heldKeys' = IF keyStr \notin DOMAIN keyMap THEN heldKeys
                      ELSE IF kind = "hold" THEN HeldAfterPress(heldKeys, keyStr)
                      ELSE IF kind = "forget" THEN HeldAfterRelease(heldKeys, keyStr)
                      ELSE heldKeys
       /\ pressedKeys' = PressedAfter(pressedKeys, kind, key)

ExecOp(op) ==
    IF op[1] = "arm"
    THEN Arm(op[2]) /\ UNCHANGED <<backendDown, heldKeys, pressedKeys>>
    ELSE ExecKey(op) /\ UNCHANGED <<timers, timerList>>

\* history: the backend calls on the sustain key
CallsAfter(op) ==
    IF op[2] = "space" /\ op[1] \in {"down", "up"}
    THEN Append(calls, op[1]) ELSE calls

(***************************************************************************)
(* The MIDI worker: midiLoop (lines 462-466) and parseMidi.                *)
(***************************************************************************)
\* lines 463-465: the worker receives m and looks at the stop signal: it
\* breaks out of the loop when the signal is set, else it goes on to line
\* 466 with m in hand
Receive(w, m) ==
    /\ workers[w].st = "wait"
    /\ ~workers[w].closed
    /\ IF stopEvent \/ closeThread
       THEN workers' = [workers EXCEPT ![w].st = "dead"]
       ELSE /\ ArmCount(parseMidi(cfg, sustainActive, m)) + PendingArms
                  <= Cardinality(FreeTimers)
            /\ workers' = [workers EXCEPT ![w].st = "got", ![w].msg = m]
    /\ UNCHANGED <<cfg, pressedKeys, heldKeys, backendDown, piano, stopEvent,
                   closeThread, sustainActive, inPort, midiThread, timers, timerList,
                   caller, lastCall>>

\* the message passes the check of line 464
Handed(w) == ~(stopEvent \/ closeThread) /\ workers[w].st = "wait"

\* line 466: parseMidi(msg) begins, whatever has happened since the check:
\* sustain latch and piano widget at once, the presses and releases as the
\* steps to take
WorkerParse(w) ==
    /\ workers[w].st = "got"
    /\ LET m == workers[w].msg
           ops == parseMidi(cfg, sustainActive, m)
       IN /\ workers' = [workers EXCEPT ![w].todo = ops,
                                        ![w].msg = NoMsg,
                                        ![w].st = IF ops = <<>> THEN "wait" ELSE "run"]
          /\ sustainActive' = SustainNext(cfg, sustainActive, m)
          /\ piano' = PianoNext(cfg, piano, m)
    /\ UNCHANGED <<cfg, pressedKeys, heldKeys, backendDown, stopEvent, closeThread,
                   inPort, midiThread, timers, timerList, caller, lastCall>>

\* the next step of the message being handled
WorkerStep(w) ==
    /\ workers[w].st = "run"
    /\ LET op == Head(workers[w].todo)
           rest == Tail(workers[w].todo)
       IN IF op[1] = "raise"
          THEN \* parseMidi catches IndexError only (line 436); anything else
               \* leaves midiLoop and ends the thread
               /\ workers' = [workers EXCEPT ![w].todo = <<>>,
                                 ![w].st = IF op[2] = "IndexError" THEN "wait" ELSE "crashed",
                                 ![w].err = IF op[2] = "IndexError" THEN "" ELSE op[2]]
               /\ UNCHANGED <<pressedKeys, heldKeys, backendDown, timers, timerList>>
          ELSE /\ ExecOp(op)
               /\ workers' = [workers EXCEPT ![w].todo = rest,
                                 ![w].st = IF rest = <<>> THEN "wait" ELSE "run"]
    /\ UNCHANGED <<cfg, piano, stopEvent, closeThread, sustainActive, inPort,
                   midiThread, caller, lastCall, nMsgs, fresh, rt, trace>>

\* line 463: the new thread evaluates the module global inPort, whatever
\* the caller has made of it since Thread.start(): iterating None is an
\* uncaught TypeError, else the thread iterates the port it found, which
\* is closed already between lines 480 and 483 of a stopMidiInput
WorkerBind(w) ==
    /\ workers[w].st = "new"
    /\ workers' = [workers EXCEPT ![w] =
                      IF inPort = 0
                      THEN [@ EXCEPT !.st = "crashed", !.err = "TypeError"]
                      ELSE [@ EXCEPT !.st = "wait", !.port = inPort,
                                     !.closed = (caller.pc = "unbind")]]
    /\ UNCHANGED <<cfg, pressedKeys, heldKeys, backendDown, piano, stopEvent,
                   closeThread, sustainActive, inPort, midiThread, timers, timerList,
                   caller, lastCall, history>>

\* iteration over a closed port ends: the thread returns
WorkerExit(w) ==
    /\ workers[w].st = "wait"
    /\ workers[w].closed
    /\ workers' = [workers EXCEPT ![w].st = "dead"]
    /\ UNCHANGED <<cfg, pressedKeys, heldKeys, backendDown, piano, stopEvent,
                   closeThread, sustainActive, inPort, midiThread, timers, timerList,
                   caller, lastCall, history>>

(***************************************************************************)
(* Hold timers: the callback is release(key) (line 338).  A Timer thread   *)
(* waits ("armed"), wakes and finds its cancel flag clear ("woken"), calls *)
(* the backend ("forget"), updates the ledger ("unlog") and calls logKeys  *)
(* ("done").                                                               *)
(***************************************************************************)
\* threading.Timer.run: the wait of noteLength ends and the cancel flag is
\* found clear; a cancel() from here on does not stop the callback
TimerWake(i) ==
    /\ timers[i].st = "armed"
    /\ timers' = [timers EXCEPT ![i].st = "woken"]
    /\ UNCHANGED <<cfg, pressedKeys, heldKeys, backendDown, piano, stopEvent,
                   closeThread, sustainActive, inPort, midiThread, workers, timerList,
                   caller, lastCall, history>>

\* release(key) of the callback, its backend call
TimerFire(i) ==
    /\ timers[i].st = "woken"
    /\ ExecKey(<<"up", timers[i].key>>)
    /\ timers' = [timers EXCEPT ![i].st = "forget"]
    /\ UNCHANGED <<cfg, timerList, piano, stopEvent, closeThread, sustainActive, inPort,
                   midiThread, workers, caller, lastCall, history>>

\* ... its ledger update
TimerForget(i) ==
    /\ timers[i].st = "forget"
    /\ ExecKey(<<"forget", timers[i].key>>)
    /\ timers' = [timers EXCEPT ![i].st = "unlog"]
    /\ UNCHANGED <<cfg, piano, stopEvent, closeThread, sustainActive,
                   inPort, midiThread, workers, timerList, caller, lastCall, history>>

\* ... and its logKeys; the Timer object stays in timerList
TimerFinish(i) ==
    /\ timers[i].st = "unlog"
    /\ ExecKey(<<"logRelease", timers[i].key>>)
    /\ timers' = [timers EXCEPT ![i] = IF i \in timerList
                                       THEN [st |-> "done", key |-> ""]
                                       ELSE FreeTimer]
    /\ UNCHANGED <<cfg, piano, stopEvent, closeThread, sustainActive,
                   inPort, midiThread, workers, timerList, caller, lastCall, history>>

(***************************************************************************)
(* The caller: startMidiInput (lines 440-470).                             *)
(***************************************************************************)
Quiet == \A w \in Workers : workers[w].st \notin {"got", "run"}
NoneAlive == \A w \in Workers : ~Alive(w)

\* lines 442-443: the stop signal is cleared before the port is opened
StartBegin ==
    /\ caller.pc = "idle"
    /\ stopEvent' = FALSE
    /\ closeThread' = FALSE
    /\ caller' = [caller EXCEPT !.pc = "open"]
    /\ UNCHANGED <<cfg, pressedKeys, heldKeys, backendDown, piano, sustainActive,
                   inPort, midiThread, workers, timers, timerList, lastCall, history>>

\* the workers once port w is opened anew: a thread that still iterates the
\* port an earlier start opened under that name keeps a port that inPort
\* will never name again
Spawned(w) ==
    [v \in Workers |->
        IF v = w THEN NewWorker
        ELSE IF Alive(v) /\ workers[v].port = w
        THEN [workers[v] EXCEPT !.port = LeakedPort]
        ELSE workers[v]]

\* lines 453-470: mido.open_input succeeds: inPort is the new port, a new
\* thread is started; the thread has not yet evaluated inPort
StartOk ==
    /\ caller.pc = "open"
    /\ \E w \in Workers :
          /\ ~Alive(w)
          /\ \A v \in Workers : ~Alive(v) => w <= v
          /\ inPort' = w
          /\ midiThread' = w
          /\ workers' = Spawned(w)
    /\ caller' = IdleCaller
    /\ lastCall' = "start"
    /\ fresh' = (heldKeys = <<>> /\ piano = {} /\ backendDown = {})
    /\ rt' = <<0, 0>>
    /\ trace' = <<>>
    /\ calls' = <<>>
    /\ UNCHANGED <<cfg, pressedKeys, heldKeys, backendDown, piano, stopEvent,
                   closeThread, sustainActive, timers, timerList, nMsgs>>

\* a failed open that goes on to line 468 and starts the thread all the same
StartFailSpawns ==
    /\ caller.pc = "open"
    /\ \E w \in Workers :
          /\ ~Alive(w)
          /\ \A v \in Workers : ~Alive(v) => w <= v
          /\ midiThread' = w
          /\ workers' = [workers EXCEPT ![w] = NewWorker]
    /\ caller' = IdleCaller
    /\ lastCall' = "startfail"
    /\ UNCHANGED <<cfg, pressedKeys, heldKeys, backendDown, piano, stopEvent,
                   closeThread, sustainActive, inPort, timers, timerList, history>>

\* lines 458-460: mido.open_input raises: logged, return
StartFail ==
    /\ caller.pc = "open"
    /\ caller' = IdleCaller
    /\ lastCall' = "startfail"
    /\ UNCHANGED <<cfg, pressedKeys, heldKeys, backendDown, piano, stopEvent,
                   closeThread, sustainActive, inPort, midiThread, workers, timers,
                   timerList, history>>

(***************************************************************************)
(* The caller: stopMidiInput (lines 473-527).                              *)
(***************************************************************************)
\* a sweep that releases only the oldest held key
SnapshotOldest(pc) ==
    [pc |-> pc, sweep |-> SubSeq(heldKeys, 1, IF heldKeys = <<>> THEN 0 ELSE 1),
     todo |-> <<>>, snapLen |-> Len(heldKeys), relCalls |-> 0]

\* line 492: list(heldKeys.keys())
Snapshot(pc) ==
    [pc |-> pc, sweep |-> heldKeys, todo |-> <<>>, snapLen |-> Len(heldKeys), relCalls |-> 0]

\* lines 475-476: set the stop signal
StopBegin ==
    /\ caller.pc = "idle"
    /\ stopEvent' = TRUE
    /\ closeThread' = TRUE
    /\ caller' = [IdleCaller EXCEPT !.pc = IF inPort # 0 THEN "close" ELSE "look"]
    /\ UNCHANGED <<cfg, pressedKeys, heldKeys, backendDown, piano, sustainActive,
                   inPort, midiThread, workers, timers, timerList, lastCall, history>>

\* lines 478-482: inPort.close(), for every thread that iterates that port
StopClose ==
    /\ caller.pc = "close"
    /\ workers' = [w \in Workers |->
                      IF Alive(w) /\ workers[w].port = inPort
                      THEN [workers[w] EXCEPT !.closed = TRUE]
                      ELSE workers[w]]
    /\ caller' = [caller EXCEPT !.pc = "unbind"]
    /\ UNCHANGED <<cfg, pressedKeys, heldKeys, backendDown, piano, stopEvent,
                   closeThread, sustainActive, inPort, midiThread, timers, timerList,
                   lastCall, history>>

\* line 483: inPort = None
StopUnbind ==
    /\ caller.pc = "unbind"
    /\ inPort' = 0
    /\ caller' = [caller EXCEPT !.pc = "look"]
    /\ UNCHANGED <<cfg, pressedKeys, heldKeys, backendDown, piano, stopEvent,
                   closeThread, sustainActive, midiThread, workers, timers, timerList,
                   lastCall, history>>

\* line 485: midiThread and midiThread.is_alive(); an ended thread is
\* neither joined nor forgotten
StopLook ==
    /\ caller.pc = "look"
    /\ caller' = IF midiThread # 0 /\ Alive(midiThread)
                 THEN [IdleCaller EXCEPT !.pc = "join"]
                 ELSE Snapshot("sweep")
    /\ UNCHANGED <<cfg, pressedKeys, heldKeys, backendDown, piano, stopEvent,
                   closeThread, sustainActive, inPort, midiThread, workers, timers,
                   timerList, lastCall, history>>

\* lines 487-490: join(timeout=1.0) returns, the thread ended or not
StopJoin(mayTimeOut) ==
    /\ caller.pc = "join"
    /\ mayTimeOut \/ ~Alive(midiThread)
    /\ midiThread' = 0
    /\ caller' = Snapshot("sweep")
    /\ UNCHANGED <<cfg, pressedKeys, heldKeys, backendDown, piano, stopEvent,
                   closeThread, sustainActive, inPort, workers, timers, timerList,
                   lastCall, history>>

\* line 500: release(key) of the next key of the snapshot, its backend call
StopReleaseCall ==
    /\ caller.pc = "sweep"
    /\ caller.todo = <<>>
    /\ caller.sweep # <<>>
    /\ LET ops == release(Head(caller.sweep))
       IN /\ ExecOp(Head(ops))
          /\ calls' = CallsAfter(Head(ops))
          /\ caller' = [caller EXCEPT !.sweep = Tail(caller.sweep),
                                      !.todo = Tail(ops),
                                      !.relCalls = caller.relCalls + 1]
    /\ UNCHANGED <<cfg, piano, stopEvent, closeThread, sustainActive, inPort,
                   midiThread, workers, lastCall, nMsgs, fresh, rt, trace>>

\* ... its ledger update, then its logKeys
StopReleaseLedger ==
    /\ caller.pc = "sweep"
    /\ caller.todo # <<>>
    /\ ExecOp(Head(caller.todo))
    /\ caller' = [caller EXCEPT !.todo = Tail(caller.todo)]
    /\ UNCHANGED <<cfg, piano, stopEvent, closeThread, sustainActive, inPort,
                   midiThread, workers, lastCall, history>>

\* line 503: heldKeys.clear()
StopClear ==
    /\ caller.pc = "sweep"
    /\ caller.todo = <<>>
    /\ caller.sweep = <<>>
    /\ heldKeys' = <<>>
    /\ caller' = [caller EXCEPT !.pc = "cancel"]
    /\ UNCHANGED <<cfg, pressedKeys, backendDown, piano, stopEvent, closeThread,
                   sustainActive, inPort, midiThread, workers, timers, timerList,
                   lastCall, history>>

\* Timer.cancel() sets the flag that Timer.run reads once, after its wait:
\* a timer still waiting never fires, one whose callback has ended is
\* over, one that has found the flag clear goes on with its callback
Cancelled(t) == IF t.st \in {"armed", "done"} THEN FreeTimer ELSE t

\* lines 505-509: cancel() on every timer of list(timerList)
StopCancel ==
    /\ caller.pc = "cancel"
    /\ timers' = [i \in Timers |-> IF i \in timerList THEN Cancelled(timers[i]) ELSE timers[i]]
    /\ caller' = [caller EXCEPT !.pc = "clear"]
    /\ UNCHANGED <<cfg, pressedKeys, heldKeys, backendDown, piano, stopEvent,
                   closeThread, sustainActive, inPort, midiThread, workers, timerList,
                   lastCall, history>>

\* lines 510-527: timerList.clear(), whatever it lists by now; clear the
\* piano widget, return.  A timer whose callback had ended and that was
\* listed after the cancel loop is dropped with the list
StopFinish ==
    /\ caller.pc = "clear"
    /\ timers' = [i \in Timers |-> IF i \in timerList /\ timers[i].st = "done"
                                    THEN FreeTimer ELSE timers[i]]
    /\ timerList' = {}
    /\ piano' = {}
    /\ caller' = IdleCaller
    /\ lastCall' = "stop"
    /\ UNCHANGED <<cfg, pressedKeys, heldKeys, backendDown, stopEvent, closeThread,
                   sustainActive, inPort, midiThread, workers, history>>


(***************************************************************************)
(* Spec: the program with all its threads.  The caller may call start and  *)
(* stop at any time, join may time out, workers and timers interleave      *)
(* step by step.  MaxRacing hold timers exist at a time here; MaxTimers of *)
(* them interleave with a worker in SpecHold.                              *)
(***************************************************************************)
SpecConfigs ==
    {c \in Configs : /\ c.pianoMap = MapStd
                     /\ ~c.velocity
                     /\ ~c.noDoubles
                     /\ ~c.sustain
                     /\ c.velocityMap = VelTwo}

SpecMsgs ==
    {NoteOn(36, 100), NoteOff(36)}

Init == InitWith(SpecConfigs, MaxRacing)

Dispatch(w, m) == Receive(w, m) /\ UNCHANGED history

Parse(w) == WorkerParse(w) /\ UNCHANGED history

Step(w) == WorkerStep(w) /\ UNCHANGED calls

Next ==
    \/ \E w \in Workers, m \in SpecMsgs : Dispatch(w, m)
    \/ \E w \in Workers : Parse(w)
    \/ \E w \in Workers : Step(w)
    \/ \E w \in Workers : WorkerExit(w)
    \/ \E i \in Timers : TimerFire(i)
    \/ \E i \in Timers : TimerForget(i)
    \/ \E i \in Timers : TimerFinish(i)
    \/ \E i \in Timers : TimerWake(i)
    \/ StartBegin
    \/ StartOk
    \/ \E w \in Workers : WorkerBind(w)
    \/ StartFail
    \/ StopBegin
    \/ StopClose
    \/ StopUnbind
    \/ StopLook
    \/ StopJoin(TRUE)
    \/ StopReleaseCall
    \/ StopReleaseLedger
    \/ StopClear
    \/ StopCancel
    \/ StopFinish

Spec == Init /\ [][Next]_vars


(***************************************************************************)
(* SpecSeq: sequential use.  One thread acts at a time: a message is       *)
(* handled to its end, a hold timer's callback runs to its end, a call of  *)
(* the caller runs to its end, and join waits for the worker to end.       *)
(* Every piano map, velocity table and setting of the velocity,            *)
(* no-doubles and custom-hold flags; note messages only.                   *)
(***************************************************************************)
SeqConfigs ==
    {c \in Configs : ~c.sustain /\ (c.velocity \/ c.velocityMap = VelTwo)}

SeqNotes == {20, 21, 37, 60, 97}

SeqMsgs ==
    {NoteOn(n, 100) : n \in SeqNotes} \cup {NoteOff(n) : n \in SeqNotes}

\* history: what the message now handed to parseMidi is.
\*   <<3, n>>  a note message the claim of the range gate says is dropped;
\*   <<1, n>>  a NoteOn (velocity > 0) of a natural-register note whose key
\*             is not a shift-wrapped symbol, handed while the ledger is empty;
\*   <<2, n>>  the NoteOff of note n handed right after its <<1, n>>;
\*   <<0, 0>>  anything else
RtNext(m) ==
    IF m.type # "control_change" /\ Dropped(cfg, m.note)
    THEN <<3, m.note>>
    ELSE IF /\ m.type = "note_on" /\ m.velocity > 0
            /\ heldKeys = <<>>
            /\ InNatural(m.note)
            /\ ~IsSymbol(Resolve(cfg, m.note))
    THEN <<1, m.note>>
    ELSE IF rt[1] = 1 /\ m.type = "note_off" /\ m.note = rt[2]
    THEN <<2, m.note>>
    ELSE <<0, 0>>

\* history: the session still consists of NoteOns of new mapped notes only
FreshNext(m) ==
    /\ fresh
    /\ m.type = "note_on" /\ m.velocity > 0
    /\ ~Dropped(cfg, m.note)
    /\ m.note \notin piano

SeqInit == InitWith(SeqConfigs, MaxTimers)

\* no thread is inside a handler, a callback or a call
Settled ==
    /\ caller.pc = "idle"
    /\ \A w \in Workers : workers[w].st \notin {"got", "run"}
    /\ \A i \in Timers : timers[i].st \notin {"forget", "unlog"}

SeqDispatch(w, m) ==
    /\ Settled
    /\ nMsgs < MaxMsgs
    /\ Receive(w, m)
    /\ UNCHANGED history

\* the history is of the messages handed to parseMidi
SeqParse(w) ==
    /\ WorkerParse(w)
    /\ nMsgs' = nMsgs + 1
    /\ fresh' = FreshNext(workers[w].msg)
    /\ rt' = RtNext(workers[w].msg)
    /\ UNCHANGED <<trace, calls>>

SeqNext ==
    \/ \E w \in Workers, m \in SeqMsgs : SeqDispatch(w, m)
    \/ \E w \in Workers : SeqParse(w)
    \/ \E w \in Workers : Step(w)
    \/ \E w \in Workers : WorkerExit(w)
    \/ \E i \in Timers : (Settled /\ TimerFire(i))
    \/ \E i \in Timers : TimerForget(i)
    \/ \E i \in Timers : TimerFinish(i)
    \/ \E i \in Timers : TimerWake(i)
    \/ (Settled /\ NoneAlive /\ StartBegin)
    \/ StartOk
    \/ \E w \in Workers : WorkerBind(w)
    \/ StartFail
    \/ (Settled /\ StopBegin)
    \/ StopClose
    \/ StopUnbind
    \/ StopLook
    \/ StopJoin(FALSE)
    \/ StopReleaseCall
    \/ StopReleaseLedger
    \/ StopClear
    \/ StopCancel
    \/ StopFinish

SpecSeq == SeqInit /\ [][SeqNext]_vars


(***************************************************************************)
(* Traced sessions: one session, sequential as in SpecSeq, with the        *)
(* messages handed to parseMidi and the backend calls on the sustain key   *)
(* recorded in order.                                                      *)
(***************************************************************************)
TracedDispatch(w, m) ==
    /\ Settled
    /\ Len(trace) < MaxTrace
    /\ Receive(w, m)
    /\ UNCHANGED history

TracedParse(w) ==
    /\ WorkerParse(w)
    /\ trace' = Append(trace, workers[w].msg)
    /\ UNCHANGED <<nMsgs, fresh, rt, calls>>

TracedStep(w) ==
    /\ WorkerStep(w)
    /\ calls' = IF Head(workers[w].todo)[1] = "raise" THEN calls
                ELSE CallsAfter(Head(workers[w].todo))

\* SpecSus: the sustain latch under every stream of control changes
SusConfigs ==
    {c \in Configs : /\ c.sustain /\ ~c.velocity /\ ~c.noDoubles /\ ~c.customHold
                     /\ c.pianoMap = MapStd /\ c.velocityMap = VelTwo}

SusMsgs == {ControlChange(63), ControlChange(64), ControlChange(65)}

SusInit == InitWith(SusConfigs, MaxTimers)

SusNext ==
    \/ (Settled /\ NoneAlive /\ StartBegin)
    \/ StartOk
    \/ \E w \in Workers : WorkerBind(w)
    \/ \E w \in Workers, m \in SusMsgs : TracedDispatch(w, m)
    \/ \E w \in Workers : TracedParse(w)
    \/ \E w \in Workers : TracedStep(w)

SpecSus == SusInit /\ [][SusNext]_vars

\* SpecVel: one NoteOn of every velocity under every velocity table over
\* five thresholds
VelThresholds == {10, 20, 30, 40, 50}

VelKey(t) ==
    CASE t = 10 -> "1" [] t = 20 -> "2" [] t = 30 -> "3" [] t = 40 -> "4" [] OTHER -> "5"

VelConfigs ==
    {[velocity |-> TRUE, noDoubles |-> FALSE, customHold |-> FALSE, sustain |-> FALSE,
      pianoMap |-> MapStd, velocityMap |-> [t \in S |-> VelKey(t)]] :
        S \in SUBSET VelThresholds}

VelMsgs == {NoteOn(60, v) : v \in 1..127}

VelInit == InitWith(VelConfigs, MaxTimers)

VelNext ==
    \/ (Settled /\ NoneAlive /\ StartBegin)
    \/ StartOk
    \/ \E w \in Workers : WorkerBind(w)
    \/ \E w \in Workers, m \in VelMsgs : (trace = <<>> /\ TracedDispatch(w, m))
    \/ \E w \in Workers : TracedParse(w)
    \/ \E w \in Workers : TracedStep(w)

SpecVel == VelInit /\ [][VelNext]_vars

\* SpecNoDoubles: the no-doubles scenario's map and messages, no-doubles on
NdConfigs ==
    {c \in Configs : /\ c.pianoMap = MapC /\ c.noDoubles /\ ~c.sustain
                     /\ (c.velocity \/ c.velocityMap = VelTwo)}

NdMsgs == {NoteOn(61, 100), NoteOn(60, 100), NoteOff(60), NoteOff(61)}

NdInit == InitWith(NdConfigs, MaxTimers)

NdNext ==
    \/ (Settled /\ NoneAlive /\ StartBegin)
    \/ StartOk
    \/ \E w \in Workers : WorkerBind(w)
    \/ \E w \in Workers, m \in NdMsgs : TracedDispatch(w, m)
    \/ \E w \in Workers : TracedParse(w)
    \/ \E w \in Workers : TracedStep(w)
    \/ \E i \in Timers : (Settled /\ TimerFire(i))
    \/ \E i \in Timers : TimerForget(i)
    \/ \E i \in Timers : TimerFinish(i)
    \/ \E i \in Timers : TimerWake(i)

SpecNoDoubles == NdInit /\ [][NdNext]_vars


(***************************************************************************)
(* Properties of stopMidiInput.                                            *)
(***************************************************************************)
NoTimerPending == \A i \in Timers : timers[i].st \notin {"armed", "woken", "forget", "unlog"}

\* C1: under every interleaving of caller, worker and timer callbacks, once
\* stopMidiInput() has returned and the handler and callbacks that were in
\* flight have run to completion, no key is down at the backend and the
\* ledger is empty, also when the bounded join timed out.
C1_StopLeavesNothingDown ==
    (lastCall = "stop" /\ caller.pc = "idle" /\ Quiet /\ NoTimerPending)
        => (backendDown = {} /\ heldKeys = <<>>)

\* the key a NoteOn of a note of the natural or octave region puts in the
\* ledger
OutKey(c, note) ==
    IF InNatural(note) /\ IsSymbol(Resolve(c, note)) THEN Lower(PrevKey(c, note))
    ELSE Lower(Resolve(c, note))

Pressable(c, note) ==
    /\ ~Dropped(c, note)
    /\ (InNatural(note) /\ IsSymbol(Resolve(c, note))) => HasPrev(c, note)
    /\ OutKey(c, note) \in DOMAIN keyMap

NoCrash == \A w \in Workers : workers[w].st # "crashed"

(***************************************************************************)
(* SpecSweep: the shutdown sweep.  One session, started with nothing held, *)
(* receives up to SweepLen NoteOns and is stopped at any moment between    *)
(* two messages; sequential as SpecSeq (the join waits for the worker to   *)
(* end, no timer callback runs while stopMidiInput does), every setting of *)
(* SeqConfigs, one hold timer per NoteOn, each free to fire or not before  *)
(* the stop.                                                               *)
(***************************************************************************)
SweepLen == 3

SweepNotes == {21, 36, 37, 60, 97}

SweepMsgs == {NoteOn(n, 100) : n \in SweepNotes}

SweepInit == InitWith(SeqConfigs, SweepLen)

SweepNext ==
    \/ (Settled /\ lastCall = "none" /\ StartBegin)
    \/ StartOk
    \/ \E w \in Workers : WorkerBind(w)
    \/ \E w \in Workers, m \in SweepMsgs :
          (Len(trace) < SweepLen /\ TracedDispatch(w, m))
    \/ \E w \in Workers : TracedParse(w)
    \/ \E w \in Workers : TracedStep(w)
    \/ \E w \in Workers : WorkerExit(w)
    \/ \E i \in Timers : TimerWake(i)
    \/ \E i \in Timers : (Settled /\ TimerFire(i))
    \/ \E i \in Timers : TimerForget(i)
    \/ \E i \in Timers : TimerFinish(i)
    \/ (Settled /\ StopBegin)
    \/ StopClose
    \/ StopUnbind
    \/ StopLook
    \/ StopJoin(FALSE)
    \/ StopReleaseCall
    \/ StopReleaseLedger
    \/ StopClear
    \/ StopCancel
    \/ StopFinish

SpecSweep == SweepInit /\ [][SweepNext]_vars

\* the session has handled NoteOns (velocity > 0) of SweepLen distinct
\* mapped notes and nothing else, and has not been stopped before
SweepSession ==
    /\ lastCall = "start"
    /\ Len(trace) = SweepLen
    /\ \A i \in 1..Len(trace) :
          /\ trace[i].type = "note_on" /\ trace[i].velocity > 0
          /\ ~Dropped(cfg, trace[i].note)
    /\ \A i, j \in 1..Len(trace) : i # j => trace[i].note # trace[j].note

\* the ledger key of the i-th NoteOn and the velocity key of its bracket
SweepKey(i) == OutKey(cfg, trace[i].note)

SweepVelocityKey(i) == findVelocityKey(trace[i].velocity, cfg.velocityMap)

\* every one of the NoteOns has left an entry of its own in the ledger:
\* each reached the press of a key of keyMap, the keys differ, no velocity
\* bracket has released the key of a note pressed before it, and no hold
\* timer has fired
EveryNoteHeld ==
    /\ \A i \in 1..Len(trace) : Pressable(cfg, trace[i].note)
    /\ \A i, j \in 1..Len(trace) : i # j => SweepKey(i) # SweepKey(j)
    /\ cfg.velocity =>
          /\ DOMAIN cfg.velocityMap # {}
          /\ \A i, j \in 1..Len(trace) : i < j => SweepVelocityKey(j) # SweepKey(i)
    /\ cfg.customHold => \A t \in Timers : timers[t].st # "done"

\* C2 as stated: after a session started with nothing held and NoteOns of
\* 3 distinct mapped notes with no NoteOff, no handler lost to an uncaught
\* error, the sweep of stopMidiInput() issues exactly 3 releases and the
\* ledger is empty afterward.
C2_ThreeNotesThreeReleases ==
    (caller.pc = "cancel" /\ SweepSession /\ NoCrash)
        => (caller.relCalls = 3 /\ heldKeys = <<>>)

\* C2 as the code has it, in sequential use: the sweep issues exactly one
\* release per ledger entry present when it starts and the ledger is empty
\* afterward; after NoteOns of 3 distinct mapped notes these are at most 3
\* releases, and 3 exactly when every note has left an entry of its own.
C2_SweepReleasesEachEntry ==
    /\ caller.pc = "sweep" => caller.relCalls + Len(caller.sweep) = caller.snapLen
    /\ caller.pc = "cancel" => (caller.relCalls = caller.snapLen /\ heldKeys = <<>>)
    /\ (caller.pc = "cancel" /\ SweepSession)
          => /\ caller.relCalls <= SweepLen
             /\ (caller.relCalls = SweepLen) <=> EveryNoteHeld

\* three releases with the velocity bracket and the hold timers enabled:
\* the three timers are armed and none has fired
C2_Witness ==
    /\ caller.pc = "cancel" /\ SweepSession
    /\ cfg.velocity /\ cfg.customHold
    /\ \A t \in Timers : timers[t].st \in {"armed", "woken"}
    /\ caller.relCalls = 3 /\ heldKeys = <<>>

\* C3: a stopMidiInput() that follows a stopMidiInput() finds nothing to
\* release, and after each call has returned and the work in flight has
\* finished, the ledger and the timer list are empty.
C3_SecondStopFindsNothing ==
    /\ lastCall = "stop" => caller.snapLen = 0
    /\ (lastCall = "stop" /\ caller.pc = "idle" /\ Quiet /\ NoTimerPending)
          => (heldKeys = <<>> /\ timerList = {})

(***************************************************************************)
(* Properties of simulateKey and parseMidi.                                *)
(***************************************************************************)
\* C4: from an empty ledger, for a note of [36, 96] whose key is not a
\* shift-wrapped symbol and every setting of the velocity, no-doubles and
\* custom-hold flags, NoteOn(note, v > 0) followed at once by NoteOff(note)
\* leaves the ledger empty.
C4_RoundTripEmptiesLedger ==
    (rt[1] = 2 /\ Quiet) => heldKeys = <<>>

C4_Witness ==
    /\ rt[1] = 2 /\ Quiet /\ heldKeys = <<>>
    /\ cfg.velocity /\ cfg.noDoubles /\ cfg.customHold
    /\ cfg.velocityMap = VelTwo
    /\ IsUpper(Resolve(cfg, rt[2]))

\* the condition of C5, as the claim words it
OutsideOrUnmapped(c, note) ==
    \/ note - 36 < -15
    \/ note - 36 > 88
    \/ /\ note \notin DOMAIN c.pianoMap.letterNoteMap
       /\ note \notin DOMAIN c.pianoMap.lowNotes
       /\ note \notin DOMAIN c.pianoMap.highNotes

\* C5: handling an event whose note n has n - 36 outside [-15, 88], or is in
\* none of the three tables, takes no step of press or release, arms no
\* timer and leaves ledger, backend, PressedKeys and piano display as they
\* were.
C5_DroppedEventNoEffect ==
    [][\A w \in Workers :
          ( /\ workers[w].st = "got"
            /\ OutsideOrUnmapped(cfg, workers[w].msg.note)
            /\ SeqParse(w) )
             => /\ workers'[w].todo = <<>>
                /\ UNCHANGED <<heldKeys, backendDown, pressedKeys, piano,
                               timers, timerList>>]_vars

C5_Witness ==
    /\ rt = <<3, 20>>
    /\ 20 \in DOMAIN cfg.pianoMap.lowNotes
    /\ heldKeys # <<>>
    /\ Quiet


\* the stream of control values handled so far
TraceValues == [i \in 1..Len(trace) |-> trace[i].value]

\* the sustain key calls C6 prescribes for a stream of control values,
\* starting from Idle (active = FALSE)
RECURSIVE LatchCalls(_, _)
LatchCalls(values, active) ==
    IF values = <<>> THEN <<>>
    ELSE IF ~active /\ Head(values) > 64
    THEN <<"down">> \o LatchCalls(Tail(values), TRUE)
    ELSE IF active /\ Head(values) < 64
    THEN <<"up">> \o LatchCalls(Tail(values), FALSE)
    ELSE LatchCalls(Tail(values), active)

\* C6: with sustain enabled, for every stream of control-change values the
\* sustain key is pressed exactly on a value above the cutoff in Idle and
\* released exactly on a value below it in Sustained, every other value
\* being a no-op; the stream 63, 65, 64, 65, 63 gives one press followed by
\* one release.
C6_SustainHysteresis ==
    Quiet =>
       /\ calls = LatchCalls(TraceValues, FALSE)
       /\ sustainActive = (calls # <<>> /\ calls[Len(calls)] = "down")
       /\ \A i \in 1..Len(calls) : calls[i] = IF i % 2 = 1 THEN "down" ELSE "up"
       /\ TraceValues = <<63, 65, 64, 65, 63>> => calls = <<"down", "up">>

C6_Witness ==
    /\ Quiet
    /\ TraceValues = <<63, 65, 64, 65, 63>>
    /\ calls = <<"down", "up">>
    /\ backendDown = {}

Smallest(S) == CHOOSE t \in S : \A u \in S : t <= u

\* C7: for every velocity v and every non-empty threshold table, the key
\* findVelocityKey returns is that of the closest threshold not exceeding
\* v, or of the smallest threshold when v is below every threshold.
C7_ClosestThresholdBelow ==
    \A w \in Workers :
       ( /\ workers[w].st = "run"
         /\ Len(workers[w].todo) >= 4
         /\ workers[w].todo[1] = <<"down", "alt">> )
       => LET v == trace[1].velocity
              T == DOMAIN cfg.velocityMap
              t == CHOOSE u \in T : cfg.velocityMap[u] = workers[w].todo[4][2]
          IN IF \E u \in T : u <= v
             THEN t <= v /\ \A u \in T : u <= v => u <= t
             ELSE t = Smallest(T)

\* C8: with no-doubles on and the compact map {60: "C", 61: "!"}, after
\* NoteOn(61, 100), NoteOn(60, 100) and the two NoteOffs in either order,
\* key "c" is not down at the backend and has no ledger entry.
C8_NoDoublesScenario ==
    ( /\ Quiet
      /\ Len(trace) = 4
      /\ trace[1] = NoteOn(61, 100) /\ trace[2] = NoteOn(60, 100)
      /\ {trace[3], trace[4]} = {NoteOff(60), NoteOff(61)} )
    => /\ keyMap["c"] \notin backendDown
       /\ \A i \in 1..Len(heldKeys) : keyMap[heldKeys[i]] # keyMap["c"]

C8_Witness ==
    /\ Quiet
    /\ trace = <<NoteOn(61, 100), NoteOn(60, 100), NoteOff(61), NoteOff(60)>>
    /\ keyMap["c"] \notin backendDown
    /\ heldKeys = <<>>
    /\ cfg.velocity /\ cfg.customHold /\ cfg.velocityMap = VelTwo

\* C9: no failure raised while one event is resolved or dispatched ends
\* the MIDI worker: every one is caught inside parseMidi.
C9_NoEventEndsWorker ==
    \A w \in Workers : workers[w].st = "crashed" => workers[w].err = "TypeError"

(***************************************************************************)
(* Properties of startMidiInput.                                           *)
(***************************************************************************)
\* C10: a startMidiInput() whose open fails spawns no worker thread, leaves
\* the loop stopped and does not touch the ledger, the timer list or the
\* backend.
C10_FailedStartSpawnsNothing ==
    [][ ( \/ (caller.pc = "idle" /\ caller'.pc = "open")
          \/ (caller.pc = "open" /\ caller'.pc = "idle" /\ lastCall' = "startfail") )
        => /\ UNCHANGED <<workers, midiThread, inPort>>
           /\ UNCHANGED <<heldKeys, timers, timerList, backendDown, pressedKeys>>
           /\ NoneAlive => NoneAlive' ]_vars

C10_Witness ==
    /\ lastCall = "startfail" /\ caller.pc = "idle"
    /\ NoneAlive
    /\ heldKeys # <<>>

(***************************************************************************)
(* Properties of the worker threads.                                       *)
(***************************************************************************)
\* C11: for every sequence of startMidiInput / stopMidiInput calls, at most
\* one MIDI worker is alive at any time and no two workers are handling a
\* message at once.
C11_AtMostOneWorkerAlive ==
    /\ Cardinality({w \in Workers : Alive(w)}) <= 1
    /\ Cardinality({w \in Workers : workers[w].st = "run"}) <= 1

\* SpecZero: one session of note messages, NoteOns of velocity 0 among them
ZeroConfigs == {c \in Configs : ~c.sustain /\ c.velocityMap = VelTwo}

ZeroNotes == {21, 36, 37, 60, 61}

ZeroMsgs ==
    {NoteOn(n, 100) : n \in ZeroNotes} \cup {NoteOn(n, 0) : n \in ZeroNotes}
        \cup {NoteOff(n) : n \in ZeroNotes}

ZeroInit == InitWith(ZeroConfigs, MaxTimers)

ZeroNext ==
    \/ (Settled /\ NoneAlive /\ StartBegin)
    \/ StartOk
    \/ \E w \in Workers : WorkerBind(w)
    \/ \E w \in Workers, m \in ZeroMsgs : SeqDispatch(w, m)
    \/ \E w \in Workers : SeqParse(w)
    \/ \E w \in Workers : Step(w)
    \/ \E i \in Timers : (Settled /\ TimerFire(i))
    \/ \E i \in Timers : TimerForget(i)
    \/ \E i \in Timers : TimerFinish(i)
    \/ \E i \in Timers : TimerWake(i)

SpecZero == ZeroInit /\ [][ZeroNext]_vars

\* C12: a NoteOn of velocity 0 is handled as the NoteOff of the same note:
\* the same steps of press and release are taken, the piano display changes
\* the same way, and no step is a press or arms a timer.
C12_ZeroVelocityIsNoteOff ==
    [][\A w \in Workers, n \in ZeroNotes :
          ( /\ workers[w].st = "got"
            /\ workers[w].msg = NoteOn(n, 0)
            /\ SeqParse(w) )
             => /\ workers'[w].todo = parseMidi(cfg, sustainActive, NoteOff(n))
                /\ piano' = PianoNext(cfg, piano, NoteOff(n))
                /\ sustainActive' = SustainNext(cfg, sustainActive, NoteOff(n))
                /\ \A i \in DOMAIN workers'[w].todo :
                      workers'[w].todo[i][1]
                         \notin {"down", "hold", "logPress", "arm"}]_vars

\* NoteOn(n, 100) armed a hold timer and pressed "t"; the message handled
\* next took the note off the display and the key out of the ledger without
\* being the NoteOff of n: it was NoteOn(n, 0)
C12_Witness ==
    /\ Quiet
    /\ nMsgs = 2
    /\ rt = <<0, 0>>
    /\ cfg.pianoMap = MapStd /\ cfg.customHold
    /\ timers[1] = [st |-> "armed", key |-> "t"]
    /\ timers[2].st = "free"
    /\ piano = {}
    /\ heldKeys = <<>>
    /\ backendDown = {}

\* a worker is between the backend call and the ledger update of a press or
\* release
WorkerMidCall(w) ==
    /\ workers[w].st = "run"
    /\ Head(workers[w].todo)[1] \in {"hold", "forget"}

\* C13: the release(key) of a hold timer and a press or release of the
\* worker are never both between their backend call and their ledger
\* update.
C13_TimerAndWorkerSerialized ==
    \A i \in Timers, w \in Workers :
        ~(timers[i].st = "forget" /\ WorkerMidCall(w))

\* stopMidiInput() has set the stop signal and no start has succeeded since
StopSignalled ==
    \/ caller.pc \in {"close", "unbind", "look", "join", "sweep", "cancel", "clear"}
    \/ lastCall = "stop"

\* C14: once stopMidiInput() has set the stop signal, no worker lets a
\* further message pass the check of line 464 on its way to parseMidi until
\* a later start has succeeded, and no worker of an earlier session does so
\* after it; a message that passed the check before the signal was set
\* counts as one whose handling had begun.
C14_NoDispatchAfterStop ==
    [][\A w \in Workers, m \in SpecMsgs :
          (Handed(w) /\ Dispatch(w, m)) => ~StopSignalled]_vars

(***************************************************************************)
(* Properties of the brackets of simulateKey.                              *)
(***************************************************************************)
Modifiers == {"shift", "ctrl", "alt"}

\* in the steps still to take, every press of a modifier is followed by the
\* press of a key that is no modifier and then by the release of the modifier
Bracketed(ops) ==
    \A i \in DOMAIN ops :
        (ops[i][1] = "down" /\ ops[i][2] \in Modifiers)
            => \E j \in DOMAIN ops, k \in DOMAIN ops :
                  /\ i < k /\ k < j
                  /\ ops[k][1] = "down" /\ ops[k][2] \notin Modifiers
                  /\ ops[j] = <<"up", ops[i][2]>>

\* C15: while one NoteOn is handled each modifier is pressed before and
\* released after the key it wraps, and a modifier that is down is released
\* by a step of the same event; between events none of shift, ctrl, alt is
\* down at the backend or in the ledger.
C15_ModifierBracketsBalanced ==
    /\ \A w \in Workers :
          workers[w].st = "run" =>
             /\ Bracketed(workers[w].todo)
             /\ \A mod \in Modifiers :
                   (keyMap[mod] \in backendDown \/ mod \in Range(heldKeys))
                      => \E j \in DOMAIN workers[w].todo :
                            workers[w].todo[j] = <<"forget", mod>>
    /\ Quiet => \A mod \in Modifiers :
                   keyMap[mod] \notin backendDown /\ mod \notin Range(heldKeys)

\* a symbol note pressed with velocity keys on: shift and alt brackets done,
\* the base key held
C15_Witness ==
    /\ Quiet
    /\ nMsgs = 1
    /\ cfg.velocity /\ cfg.velocityMap = VelTwo /\ cfg.pianoMap = MapStd
    /\ piano = {37}
    /\ heldKeys = <<"1">>
    /\ backendDown = {keyMap["1"]}

\* SpecBracket: velocity keys on, the stock layout, where the velocity key
\* "1" is also the key of note 36
BrConfigs ==
    {c \in Configs : /\ c.velocity /\ ~c.sustain
                     /\ c.pianoMap = MapStd /\ c.velocityMap = VelTwo}

BrMsgs == {NoteOn(36, 100), NoteOn(60, 10), NoteOff(36), NoteOff(60)}

BrInit == InitWith(BrConfigs, MaxTimers)

BrNext ==
    \/ (Settled /\ NoneAlive /\ StartBegin)
    \/ StartOk
    \/ \E w \in Workers : WorkerBind(w)
    \/ \E w \in Workers, m \in BrMsgs : TracedDispatch(w, m)
    \/ \E w \in Workers : TracedParse(w)
    \/ \E w \in Workers : TracedStep(w)
    \/ \E i \in Timers : (Settled /\ TimerFire(i))
    \/ \E i \in Timers : TimerForget(i)
    \/ \E i \in Timers : TimerFinish(i)
    \/ \E i \in Timers : TimerWake(i)

SpecBracket == BrInit /\ [][BrNext]_vars

\* the worker is inside the velocity bracket of lines 376-379
InVelocityBracket(w) ==
    /\ workers[w].st = "run"
    /\ \E j \in DOMAIN workers[w].todo : workers[w].todo[j] = <<"forget", "alt">>

\* the keys of the notes on display, the note being handled apart
EarlierNoteKeys ==
    {OutKey(cfg, n) : n \in {x \in piano : /\ Pressable(cfg, x)
                                           /\ x # trace[Len(trace)].note}}

\* C16: the velocity bracket leaves the keys of held notes alone: no step
\* of the bracket takes the key of an earlier note on display out of the
\* ledger or releases it at the backend, also when the velocity key is the
\* key of that note.
C16_VelocityBracketKeepsNoteKeys ==
    [][\A w \in Workers :
          (InVelocityBracket(w) /\ TracedStep(w))
             => \A k \in EarlierNoteKeys :
                   /\ k \in Range(heldKeys) => k \in Range(heldKeys')
                   /\ keyMap[k] \in backendDown => keyMap[k] \in backendDown']_vars

(***************************************************************************)
(* Properties of the hold timers.                                          *)
(***************************************************************************)
\* SpecHold: one session that is never stopped and receives NoteOns only;
\* timer callbacks interleave with the worker's steps.  A started Timer
\* fires after noteLength and a running thread takes its next step: weak
\* fairness of the timer and worker steps.
HoldConfigs ==
    {c \in Configs : /\ ~c.sustain /\ ~c.velocity
                     /\ c.pianoMap = MapStd /\ c.velocityMap = VelTwo}

HoldMsgs == {NoteOn(36, 100), NoteOn(37, 100), NoteOn(61, 100), NoteOn(97, 100)}

HoldInit == InitWith(HoldConfigs, MaxTimers)

HoldDispatch(w, m) ==
    /\ nMsgs < MaxMsgs
    /\ Receive(w, m)
    /\ UNCHANGED history

\* nMsgs counts the messages handed to parseMidi
HoldParse(w) ==
    /\ WorkerParse(w)
    /\ nMsgs' = nMsgs + 1
    /\ UNCHANGED <<fresh, rt, trace, calls>>

HoldNext ==
    \/ (NoneAlive /\ StartBegin)
    \/ StartOk
    \/ \E w \in Workers : WorkerBind(w)
    \/ \E w \in Workers, m \in HoldMsgs : HoldDispatch(w, m)
    \/ \E w \in Workers : HoldParse(w)
    \/ \E w \in Workers : Step(w)
    \/ \E i \in Timers : TimerFire(i)
    \/ \E i \in Timers : TimerForget(i)
    \/ \E i \in Timers : TimerFinish(i)
    \/ \E i \in Timers : TimerWake(i)

HoldFairness ==
    /\ \A w \in Workers : WF_vars(HoldParse(w))
    /\ \A w \in Workers : WF_vars(Step(w))
    /\ \A w \in Workers : WF_vars(WorkerBind(w))
    /\ \A i \in 1..MaxTimers : WF_vars(TimerWake(i))
    /\ \A i \in 1..MaxTimers : WF_vars(TimerFire(i))
    /\ \A i \in 1..MaxTimers : WF_vars(TimerForget(i))
    /\ \A i \in 1..MaxTimers : WF_vars(TimerFinish(i))

SpecHold == HoldInit /\ [][HoldNext]_vars /\ HoldFairness

KeyHeldOrDown(k) == k \in Range(heldKeys) \/ keyMap[k] \in backendDown

\* C17: with custom hold length enabled and the session not stopped, a key
\* pressed through pressAndMaybeRelease is eventually up at the backend and
\* out of the ledger although no NoteOff arrives; with custom hold length
\* disabled no timer is ever armed.
C17_HeldKeyEventuallyReleased ==
    /\ \A k \in {"1", "t", "y"} :
          (cfg.customHold /\ KeyHeldOrDown(k)) ~> ~KeyHeldOrDown(k)
    /\ [](~cfg.customHold =>
             (timerList = {} /\ \A i \in Timers : timers[i].st = "free"))

\* both timers have fired and released their keys while the notes are
\* still on display
C17_Witness ==
    /\ cfg.customHold
    /\ \A i \in Timers : timers[i].st = "done"
    /\ piano = {37, 97}
    /\ heldKeys = <<>>
    /\ backendDown = {}
    /\ Quiet

(***************************************************************************)
(* Properties of findVelocityKey.                                          *)
(***************************************************************************)
\* C18: for every velocity of 0..127 and every non-empty table (tables of 1
\* and 2 thresholds among them) findVelocityKey ends and returns a key of
\* the table, and that key is the one the bracket presses; with an empty
\* table it fails with IndexError, which parseMidi catches: the event takes
\* no step of press or release and the worker lives on.
C18_VelocityKeyTotal ==
    /\ \A v \in 0..127 :
          IF DOMAIN cfg.velocityMap = {}
          THEN findVelocityKey(v, cfg.velocityMap) = "IndexError"
          ELSE findVelocityKey(v, cfg.velocityMap)
                  \in {cfg.velocityMap[t] : t \in DOMAIN cfg.velocityMap}
    /\ \A w \in Workers :
          (workers[w].st = "run" /\ workers[w].todo[1] = <<"down", "alt">>)
             => /\ DOMAIN cfg.velocityMap # {}
                /\ workers[w].todo[4] =
                      <<"down", findVelocityKey(trace[1].velocity, cfg.velocityMap)>>
    /\ DOMAIN cfg.velocityMap = {} =>
          /\ backendDown = {} /\ heldKeys = <<>> /\ pressedKeys = {}
          /\ \A w \in Workers :
                /\ workers[w].st # "crashed"
                /\ workers[w].st = "run" => workers[w].todo = Raise("IndexError")

\* a NoteOn has been handled under the empty table: nothing pressed, the
\* note on display, the worker waiting for the next message
C18_Witness ==
    /\ DOMAIN cfg.velocityMap = {}
    /\ Len(trace) = 1
    /\ Quiet
    /\ piano = {60}
    /\ backendDown = {}
    /\ workers[1].st = "wait"

(***************************************************************************)
(* Properties of the ledger.                                               *)
(***************************************************************************)
\* a worker is inside press or release: past the backend call, its ledger
\* update or its logKeys still to come
WorkerInCall(w) ==
    /\ workers[w].st = "run"
    /\ Head(workers[w].todo)[1] \in {"hold", "logPress", "forget", "logRelease"}

\* no press or release call is under way on any thread
NoCallMidExecution ==
    /\ \A w \in Workers : ~WorkerInCall(w)
    /\ \A i \in Timers : timers[i].st \notin {"forget", "unlog"}
    /\ caller.todo = <<>>

\* C19: under every interleaving of the worker with the hold-timer
\* callbacks, whenever no press or release call is mid-execution every key
\* that is down at the backend has an entry in the ledger.
C19_LedgerRecordsEveryKeyDown ==
    NoCallMidExecution =>
        \A code \in backendDown :
            \E i \in DOMAIN heldKeys : keyMap[heldKeys[i]] = code

(***************************************************************************)
(* Properties of the sustain latch across sessions.                        *)
(***************************************************************************)
\* SpecLatch: sessions with sustain enabled, started and stopped in turn,
\* each receiving control changes; trace and calls restart with the session
LatchMsgs == {ControlChange(63), ControlChange(65)}

LatchInit == InitWith(SusConfigs, MaxTimers)

LatchNext ==
    \/ (Settled /\ NoneAlive /\ StartBegin)
    \/ StartOk
    \/ \E w \in Workers : WorkerBind(w)
    \/ \E w \in Workers, m \in LatchMsgs : TracedDispatch(w, m)
    \/ \E w \in Workers : TracedParse(w)
    \/ \E w \in Workers : TracedStep(w)
    \/ \E w \in Workers : WorkerExit(w)
    \/ (Settled /\ StopBegin)
    \/ StopClose
    \/ StopUnbind
    \/ StopLook
    \/ StopJoin(FALSE)
    \/ StopReleaseCall
    \/ StopReleaseLedger
    \/ StopClear
    \/ StopCancel
    \/ StopFinish

SpecLatch == LatchInit /\ [][LatchNext]_vars

\* C20: whenever a session starts the sustain latch is Idle, whatever the
\* sessions before it; hence the first backend call on the sustain key
\* within a session is a press.
C20_LatchIdleAtSessionStart ==
    /\ (lastCall = "start" /\ trace = <<>>) => ~sustainActive
    /\ calls # <<>> => calls[1] = "down"

(***************************************************************************)
(* Properties of a hold timer and the press that armed it.                 *)
(***************************************************************************)
\* SpecRepress: one session with custom hold length enabled; messages and
\* timer callbacks run one at a time, in any order
RepressConfigs ==
    {c \in Configs : /\ c.customHold /\ ~c.velocity /\ ~c.sustain
                     /\ c.pianoMap = MapStd /\ c.velocityMap = VelTwo}

RepressMsgs == {NoteOn(36, 100), NoteOff(36), NoteOn(60, 100)}

RepressInit == InitWith(RepressConfigs, MaxTimers)

RepressNext ==
    \/ (Settled /\ NoneAlive /\ StartBegin)
    \/ StartOk
    \/ \E w \in Workers : WorkerBind(w)
    \/ \E w \in Workers, m \in RepressMsgs : TracedDispatch(w, m)
    \/ \E w \in Workers : TracedParse(w)
    \/ \E w \in Workers : TracedStep(w)
    \/ \E i \in Timers : (Settled /\ TimerFire(i))
    \/ \E i \in Timers : TimerForget(i)
    \/ \E i \in Timers : TimerFinish(i)
    \/ \E i \in Timers : TimerWake(i)

SpecRepress == RepressInit /\ [][RepressNext]_vars

\* C21: a key is pressed (timer 1 armed), released by its NoteOff and
\* pressed again (timer 2 armed); once timer 1 has fired, and while timer 2
\* has not, the second press is still down at the backend and in the
\* ledger.
C21_TimerReleasesOwnPressOnly ==
    ( /\ trace = <<NoteOn(36, 100), NoteOff(36), NoteOn(36, 100)>>
      /\ Quiet
      /\ timers[1].st = "done"
      /\ timers[2] = [st |-> "armed", key |-> "1"] )
    => /\ keyMap["1"] \in backendDown
       /\ "1" \in Range(heldKeys)

====
